---- MODULE Spec2Model ----
(***************************************************************************)
(* Verification model of linear-trend-spotter.                             *)
(*                                                                         *)
(* Part 1: processors/uniformity_filter.py (UniformityFilter).            *)
(*                                                                         *)
(* Number representation.  The Python code computes on floats.  The model  *)
(* computes on exact rationals <<n, d>> (d > 0, lowest terms); a value     *)
(* that the code rounds to one decimal (round(x, 1)) is held as its        *)
(* integer number of tenths, so score 100.0 is 1000 and gain -10.0 is      *)
(* -100.  A raised Python exception is a result of kind "raise".           *)
(***************************************************************************)
EXTENDS Integers, Sequences, FiniteSets, TLC

(***************************************************************************)
(* Bounds of the model.                                                    *)
(***************************************************************************)
\* Prices are drawn from -1 .. MaxPrice (non-positive prices included).
MaxPrice == 4
\* Price lists have 0 .. MaxLen entries.
MaxLen == 3
\* The period argument ranges over -MaxNegPeriod .. MaxPeriod.
MaxPeriod == 4
MaxNegPeriod == 1

\* calculate's default period (also the period of the documented scenarios).
DefaultPeriod == 30

(***************************************************************************)
(* Exact rational arithmetic standing for the float operators.             *)
(***************************************************************************)
Abs(x) == IF x < 0 THEN 0 - x ELSE x

Min2(a, b) == IF a <= b THEN a ELSE b

Max2(a, b) == IF a >= b THEN a ELSE b

RECURSIVE GCD(_, _)
GCD(a, b) == IF b = 0 THEN a ELSE GCD(b, a % b)

\* The rational n/d (d # 0) in lowest terms with a positive denominator.
Rat(n, d) ==
    LET g == GCD(Abs(n), Abs(d))
        s == IF d < 0 THEN 0 - 1 ELSE 1
    IN  <<(s * n) \div g, (s * d) \div g>>

RInt(k) == <<k, 1>>

RAdd(x, y) == Rat(x[1] * y[2] + y[1] * x[2], x[2] * y[2])

RSub(x, y) == Rat(x[1] * y[2] - y[1] * x[2], x[2] * y[2])

RMul(x, y) == Rat(x[1] * y[1], x[2] * y[2])

\* x / y for y # 0 (the callers test y = 0, where Python raises).
RDiv(x, y) == Rat(x[1] * y[2], x[2] * y[1])

RAbs(x) == <<Abs(x[1]), x[2]>>

RLeq(x, y) == x[1] * y[2] <= y[1] * x[2]

RLess(x, y) == x[1] * y[2] < y[1] * x[2]

RMin(x, y) == IF RLeq(x, y) THEN x ELSE y

\* The sum of the rationals seq[lo], ..., seq[hi].  Exact addition is
\* associative, so the sum a loop accumulates term by term is taken by halves.
RECURSIVE RSumRange(_, _, _)
RSumRange(seq, lo, hi) ==
    IF lo > hi THEN RInt(0)
    ELSE IF lo = hi THEN seq[lo]
    ELSE LET mid == (lo + hi) \div 2
         IN  RAdd(RSumRange(seq, lo, mid), RSumRange(seq, mid + 1, hi))

RSum(seq) == RSumRange(seq, 1, Len(seq))

\* Sign of a/b - c/d for a, c >= 0 and b, d > 0, by the continued-fraction
\* expansion (no product of the four numbers is formed).
RECURSIVE CmpFrac(_, _, _, _)
CmpFrac(a, b, c, d) ==
    LET qa == a \div b
        qc == c \div d
        ra == a % b
        rc == c % d
    IN  IF qa < qc THEN 0 - 1
        ELSE IF qa > qc THEN 1
        ELSE IF ra = 0 /\ rc = 0 THEN 0
        ELSE IF ra = 0 THEN 0 - 1
        ELSE IF rc = 0 THEN 1
        ELSE CmpFrac(d, rc, b, ra)

\* round(x, 1) in tenths: the integer nearest to 10 * x, ties to even.
Round1(x) ==
    LET n == 10 * x[1]
        d == x[2]
        q == n \div d
        r == n - q * d
    IN  IF 2 * r < d THEN q
        ELSE IF 2 * r > d THEN q + 1
        ELSE IF q % 2 = 0 THEN q ELSE q + 1

\* 1000 - 1000 * sqrt(x) >= k - 1/2, for a rational x >= 0: this is
\* sqrt(x) <= (2001 - 2k) / 2000, squared on both sides.
RawAtLeast(x, k) ==
    /\ 2001 - 2 * k >= 0
    /\ CmpFrac(x[1], x[2], (2001 - 2 * k) * (2001 - 2 * k), 4000000) <= 0

\* 1000 - 1000 * sqrt(x) = k - 1/2 exactly (a rounding tie).
RawTie(x, k) ==
    /\ 2001 - 2 * k >= 0
    /\ CmpFrac(x[1], x[2], (2001 - 2 * k) * (2001 - 2 * k), 4000000) = 0

\* The largest k in lo .. hi with RawAtLeast(x, k), given RawAtLeast(x, lo).
RECURSIVE LargestAtLeast(_, _, _)
LargestAtLeast(x, lo, hi) ==
    IF lo = hi THEN lo
    ELSE LET mid == (lo + hi + 1) \div 2
         IN  IF RawAtLeast(x, mid) THEN LargestAtLeast(x, mid, hi)
             ELSE LargestAtLeast(x, lo, mid - 1)

\* round(100 * (1 - math.sqrt(x)), 1) in tenths, for 0 <= x <= 1.
RoundRawScore(x) ==
    LET k == LargestAtLeast(x, 0, 1000)
    IN  IF RawTie(x, k) /\ k % 2 # 0 THEN k - 1 ELSE k

(***************************************************************************)
(* UniformityFilter.calculate                                              *)
(***************************************************************************)
\* What a call ends in: a returned (score, gain) pair, both in tenths, or a
\* raised exception.
Return(score, gain) == [kind |-> "return", score |-> score, gain |-> gain, exc |-> "-"]

Raise(exc) == [kind |-> "raise", score |-> 0, gain |-> 0, exc |-> exc]

NoResult == [kind |-> "none", score |-> 0, gain |-> 0, exc |-> "-"]

\* The length test one short: len(prices) < period - 1.
InsufficientDataOffByOne(prices, period) == Len(prices) < period - 1

\* if len(prices) < period
InsufficientData(prices, period) == Len(prices) < period

\* prices[-period:], a new list: Python's slice start -period, moved into
\* 0 .. len(prices) (a negative start counts from the end, -0 is 0).
prices_period(prices, period) ==
    LET n == Len(prices)
        start == IF 0 - period < 0 THEN Max2(n - period, 0) ELSE Min2(0 - period, n)
    IN  SubSeq(prices, start + 1, n)

\* The base test without the zero case: base_price < 0.
NonPositiveBaseStrict(base_price) == base_price < 0

\* if base_price <= 0
NonPositiveBase(base_price) == base_price <= 0

\* The loop building cumulative_pcts: ((price - base_price) / base_price) * 100
\* for every price of the window (base_price # 0 here).
cumulative_pcts(window) ==
    LET base_price == window[1]
    IN  [i \in 1 .. Len(window) |->
            RMul(RDiv(RInt(window[i] - base_price), RInt(base_price)), RInt(100))]

\* total_gain = cumulative_pcts[-1]
total_gain(cum) == cum[Len(cum)]

\* The gain test without the zero case: total_gain < 0.
NonPositiveGainStrict(gain) == RLess(gain, RInt(0))

\* if total_gain <= 0
NonPositiveGain(gain) == RLeq(gain, RInt(0))

\* The ideal slope taken over period steps instead of period - 1.
daily_uniform_gain_per_period(gain, period) == RDiv(gain, RInt(period))

\* daily_uniform_gain = total_gain / (period - 1), for period # 1.
daily_uniform_gain(gain, period) == RDiv(gain, RInt(period - 1))

\* ideal_line = [i * daily_uniform_gain for i in range(period)]; the Python
\* index i is the model's index i + 1.
ideal_line(daily, period) ==
    [i \in 1 .. Max2(period, 0) |-> RMul(RInt(i - 1), daily)]

\* The loop "for i in range(period)" adds one term per iteration to each of
\* its two running sums; the Python index i is the model's index i + 1.
\* deviation = abs(cumulative_pcts[i] - ideal_line[i])
deviations_signed(cum, ideal, period) ==
    [i \in 1 .. Max2(period, 0) |-> RSub(cum[i], ideal[i])]

\* deviation = abs(cumulative_pcts[i] - ideal_line[i]), for each i of the loop.
deviations(cum, ideal, period) ==
    [i \in 1 .. Max2(period, 0) |-> RAbs(RSub(cum[i], ideal[i]))]

\* total_deviation += deviation, over the whole loop.
total_deviation(cum, ideal, period) == RSum(deviations(cum, ideal, period))

\* The step with the last index counted too: i <= period - 1.
DeviationStepInclusive(gain, i, period) == IF i <= period - 1 THEN gain ELSE RInt(0)

\* What iteration i adds to max_possible_deviation:
\* total_gain if i < period - 1 else 0.
DeviationStep(gain, i, period) == IF i < period - 1 THEN gain ELSE RInt(0)

\* max_possible_deviation += ..., over the whole loop.
max_possible_deviation(gain, period) ==
    RSum([i \in 1 .. Max2(period, 0) |-> DeviationStep(gain, i - 1, period)])

\* The denominator test with its sign turned: max_possible_deviation < 0.
normalized_deviation_sign(deviation, max_deviation) ==
    IF RLess(max_deviation, RInt(0)) THEN RDiv(deviation, max_deviation)
    ELSE RInt(0)

\* normalized_deviation: the quotient when max_possible_deviation > 0, else 0.
normalized_deviation(deviation, max_deviation) ==
    IF RLess(RInt(0), max_deviation) THEN RDiv(deviation, max_deviation)
    ELSE RInt(0)

\* min(normalized_deviation, 1), the argument of math.sqrt.
ClampedDeviation(nd) == RMin(nd, RInt(1))

\* The score without the "1 -": raw_score = 100 * math.sqrt(...).
uniformity_score_closeness(nd) ==
    Min2(1000, Max2(0, 1000 - RoundRawScore(ClampedDeviation(nd))))

\* uniformity_score = min(100, max(0, round(raw_score, 1))), in tenths, with
\* raw_score = 100 * (1 - math.sqrt(min(normalized_deviation, 1))).
uniformity_score(nd) == Min2(1000, Max2(0, RoundRawScore(ClampedDeviation(nd))))

\* The pair of the non-positive-gain path in the wrong order.
LossReturnSwapped(gain) == Return(Round1(gain), 0)

\* The non-positive-gain path returning the fixed pair (0, 0).
LossReturnZeroGain(gain) == Return(0, 0)

\* The return of the non-positive-gain path: return 0, round(total_gain, 1).
LossReturn(gain) == Return(0, Round1(gain))

\* The body of calculate from line 30 on (positive total gain).  The division
\* by period - 1 raises when period is 1, and cumulative_pcts[i] raises when
\* the loop index leaves the list.
ScorePath(cum, gain, period) ==
    IF period - 1 = 0 THEN Raise("ZeroDivisionError")
    ELSE IF period > Len(cum) THEN Raise("IndexError")
    ELSE
        LET ideal == ideal_line(daily_uniform_gain(gain, period), period)
            deviation == total_deviation(cum, ideal, period)
            max_deviation == max_possible_deviation(gain, period)
            nd == normalized_deviation(deviation, max_deviation)
        IN  IF RLess(nd, RInt(0)) THEN Raise("ValueError")
            ELSE Return(uniformity_score(nd), Round1(gain))

\* calculate(prices, period): the returned pair or the raised exception.
\* prices_period[0] raises on an empty window, the division by base_price
\* raises when base_price is 0.
calculate(prices, period) ==
    IF InsufficientData(prices, period) THEN Return(0, 0)
    ELSE
        LET window == prices_period(prices, period)
        IN  IF Len(window) = 0 THEN Raise("IndexError")
            ELSE IF NonPositiveBase(window[1]) THEN Return(0, 0)
            ELSE IF window[1] = 0 THEN Raise("ZeroDivisionError")
            ELSE
                LET cum == cumulative_pcts(window)
                    gain == total_gain(cum)
                IN  IF NonPositiveGain(gain) THEN LossReturn(gain)
                    ELSE ScorePath(cum, gain, period)

(***************************************************************************)
(* UniformityFilter.get_score_category                                     *)
(***************************************************************************)
\* get_score_category with the Fair threshold at its former value, 40.
get_score_category_fair40(score, gain) ==
    IF gain <= 0 THEN "Negative Return"
    ELSE IF score >= 900 THEN "Perfect"
    ELSE IF score >= 750 THEN "Excellent"
    ELSE IF score >= 600 THEN "Good"
    ELSE IF score >= 400 THEN "Fair"
    ELSE IF score >= 200 THEN "Poor"
    ELSE "Bad"

\* The if/elif chain, first match first; score and gain in tenths.  The
\* labels are the returned strings without their trailing emoji.
get_score_category(score, gain) ==
    IF gain <= 0 THEN "Negative Return"
    ELSE IF score >= 900 THEN "Perfect"
    ELSE IF score >= 750 THEN "Excellent"
    ELSE IF score >= 600 THEN "Good"
    ELSE IF score >= 450 THEN "Fair"
    ELSE IF score >= 200 THEN "Poor"
    ELSE "Bad"

(***************************************************************************)
(* State.                                                                  *)
(*   prices, period   the arguments a caller holds and passes to calculate *)
(*   result           what the latest call of calculate ended in           *)
(*   first_result     what the first call on (prices, period) ended in     *)
(*   last_call        which arguments the latest call had: the caller's    *)
(*                    ("main"), other ones ("other"), or no call yet       *)
(*   interleaved      a call with other arguments was made after the first *)
(*                    call on (prices, period)                             *)
(*   cat_score, cat_gain, category                                         *)
(*                    the arguments and the return of get_score_category   *)
(***************************************************************************)
VARIABLES prices, period, result, first_result, last_call, interleaved,
          cat_score, cat_gain, category

calcVars == <<prices, period, result, first_result, last_call, interleaved>>

catVars == <<cat_score, cat_gain, category>>

\* The state of a scanner run: the Telegram setting, the active_coins
\* table, the price_cache table, the clock, and what the last run did.
\* chart_score holds what UniformityFilter.calculate returns for each
\* list of prices the market can answer with; last_cached holds the
\* arguments and the time of the latest cache_price_data call per coin_id;
\* notified holds the coins with an entry notification and no exit
\* notification after it; rate_limited holds the coins whose fetch the
\* last run logged as rate limited; retry_pending holds the coins that were
\* active when a run logged them as rate limited and that no run has
\* entered since.
VARIABLES telegram, active_coins, price_cache, now, scan_no, stage,
          processed, final_results, entered, exited, cache_hits, fetched,
          entry_msgs, exit_msgs, notified, chart_score, last_cached,
          rate_limited, retry_pending

scanVars == <<telegram, active_coins, price_cache, now, scan_no, stage,
              processed, final_results, entered, exited, cache_hits, fetched,
              entry_msgs, exit_msgs, notified, chart_score, last_cached,
              rate_limited, retry_pending>>

\* The state of the scheduler processes and of the lock file: where each
\* process is in ScanScheduler.run, the file its ScanLock has open, the file
\* the path scan.lock names, the flock on each file, and how run ended.
\* finished_before holds, per process, the processes whose run had returned
\* when it opened the lock file.
VARIABLES pc, fp, path_file, files_made, holder, scan_exc, outcome, escaped,
          finished_before

lockVars == <<pc, fp, path_file, files_made, holder, scan_exc, outcome, escaped,
              finished_before>>

\* Two calls of calculate on two lists of one length and one period.
VARIABLES path_a, path_b, pair_period, result_a, result_b

pairVars == <<path_a, path_b, pair_period, result_a, result_b>>

\* A CircuitBreaker and the clock: its arguments, its fields, where the
\* one caller is in call, and what the latest call did.  entry_state holds
\* the state the latest call found, invoked how many times it invoked the
\* wrapped function, func_outcome what the function did, call_result how
\* the call ended.  failed_calls counts the failed calls since the last
\* HALF_OPEN-to-CLOSED reset or construction; success_between is set when
\* a call succeeded in CLOSED after a failed call counted in failed_calls.
VARIABLES failure_threshold, recovery_timeout, state, failure_count,
          last_failure_time, cb_time, cb_pc, cb_calls, invoked, entry_state,
          func_outcome, call_result, failed_calls, success_between

breakerVars == <<failure_threshold, recovery_timeout, state, failure_count,
                 last_failure_time, cb_time, cb_pc, cb_calls, invoked,
                 entry_state, func_outcome, call_result, failed_calls,
                 success_between>>

\* One call of a function wrapped by retry: the decorator's arguments, the
\* loop's attempt and _delay, where the call is, what each invocation of the
\* function did, and how the call ended.
VARIABLES max_attempts, exceptions, attempt, retry_delay, retry_pc,
          func_log, sleeps, retry_result, retry_value

retryVars == <<max_attempts, exceptions, attempt, retry_delay, retry_pc,
               func_log, sleeps, retry_result, retry_value>>

utilVars == <<breakerVars, retryVars>>

vars == <<calcVars, catVars, scanVars, lockVars, pairVars, utilVars>>

\* The inputs of the model: every list of at most MaxLen prices, and the
\* documented scenarios with the default period.
PriceValues == (0 - 1) .. MaxPrice

PriceLists == UNION {[1 .. n -> PriceValues] : n \in 0 .. MaxLen}

PeriodValues == (0 - MaxNegPeriod) .. MaxPeriod

\* 100, 102, ..., 158: linear, +2 each step.
ScenarioLinear == [i \in 1 .. DefaultPeriod |-> 100 + 2 * (i - 1)]

\* [100] * 29 + [90]: the last value below the base.
ScenarioLoss == [i \in 1 .. DefaultPeriod |-> IF i < DefaultPeriod THEN 100 ELSE 90]

\* A list of length 10, shorter than the period.
ScenarioShort == [i \in 1 .. 10 |-> 100 + i]

\* [0] + [10] * 29: base price 0.
ScenarioZeroBase == [i \in 1 .. DefaultPeriod |-> IF i = 1 THEN 0 ELSE 10]

Scenarios == {ScenarioLinear, ScenarioLoss, ScenarioShort, ScenarioZeroBase}

\* The arguments <<prices, period>> of the calls made between the caller's.
OtherArgs == {<<<<1, 3, 3>>, 3>>, <<<<3, 1, 2>>, 3>>, <<<<2, 3>>, 3>>}

CalcIdle ==
    /\ result = NoResult
    /\ first_result = NoResult
    /\ last_call = "none"
    /\ interleaved = FALSE

CatIdle ==
    /\ cat_score = 0
    /\ cat_gain = 0
    /\ category = "-"

\* No pair of lists given.
PairIdle ==
    /\ path_a = <<>>
    /\ path_b = <<>>
    /\ pair_period = DefaultPeriod
    /\ result_a = NoResult
    /\ result_b = NoResult

BreakerIdle ==
    /\ failure_threshold = 5
    /\ recovery_timeout = 60
    /\ state = "CLOSED"
    /\ failure_count = 0
    /\ last_failure_time = 0
    /\ cb_time = 0
    /\ cb_pc = "idle"
    /\ cb_calls = 0
    /\ invoked = 0
    /\ entry_state = "CLOSED"
    /\ func_outcome = "none"
    /\ call_result = "none"
    /\ failed_calls = 0
    /\ success_between = FALSE

RetryIdle ==
    /\ max_attempts = 3
    /\ exceptions = {}
    /\ attempt = 0
    /\ retry_delay = 1
    /\ retry_pc = "idle"
    /\ func_log = <<>>
    /\ sleeps = 0
    /\ retry_result = "none"
    /\ retry_value = 0

UtilIdle == BreakerIdle /\ RetryIdle

\* The bound of the lock model: the scheduler processes.
NumProcs == 3

Procs == 1 .. NumProcs

\* The files scan.lock has named: a new one is made when open finds none.
Files == 1 .. NumProcs

NoFile == 0

NoProc == 0

\* No scheduler started: no lock file, no flock.
LockIdle ==
    /\ pc = [p \in Procs |-> "idle"]
    /\ fp = [p \in Procs |-> NoFile]
    /\ path_file = NoFile
    /\ files_made = 0
    /\ holder = [f \in Files |-> NoProc]
    /\ scan_exc = [p \in Procs |-> "none"]
    /\ outcome = [p \in Procs |-> "none"]
    /\ escaped = [p \in Procs |-> FALSE]
    /\ finished_before = [p \in Procs |-> {}]

\* No scanner run yet: empty tables, nothing sent.
ScanLogIdle ==
    /\ scan_no = 0
    /\ stage = "none"
    /\ processed = {}
    /\ final_results = <<>>
    /\ entered = <<>>
    /\ exited = {}
    /\ cache_hits = {}
    /\ fetched = {}
    /\ entry_msgs = <<>>
    /\ exit_msgs = {}
    /\ notified = {}
    /\ rate_limited = {}
    /\ retry_pending = {}

ScanIdle ==
    /\ telegram = FALSE
    /\ active_coins = {}
    /\ price_cache = <<>>
    /\ now = 0
    /\ chart_score = <<>>
    /\ last_cached = <<>>
    /\ ScanLogIdle

Init ==
    /\ \/ prices \in PriceLists /\ period \in PeriodValues
       \/ prices \in Scenarios /\ period = DefaultPeriod
    /\ CalcIdle
    /\ CatIdle
    /\ ScanIdle
    /\ LockIdle
    /\ PairIdle
    /\ UtilIdle

\* Calculate with the window cut out of the caller's list in place
\* (del prices[:-period]) instead of sliced into a new list.
CalculateInPlace ==
    /\ result' = calculate(prices, period)
    /\ first_result' = IF first_result = NoResult THEN result' ELSE first_result
    /\ last_call' = "main"
    /\ prices' = IF InsufficientData(prices, period) THEN prices
                  ELSE prices_period(prices, period)
    /\ UNCHANGED <<period, interleaved>>
    /\ UNCHANGED <<catVars, scanVars, lockVars, pairVars, utilVars>>

\* A call calculate(prices, period) by the caller.  The call works on the
\* slice prices[-period:], a new list: the caller's list is not written.
Calculate ==
    /\ result' = calculate(prices, period)
    /\ first_result' = IF first_result = NoResult THEN result' ELSE first_result
    /\ last_call' = "main"
    /\ UNCHANGED <<prices, period, interleaved>>
    /\ UNCHANGED <<catVars, scanVars, lockVars, pairVars, utilVars>>

\* A call of calculate with other arguments, between the caller's calls.
CalculateOther ==
    /\ \E other \in OtherArgs : result' = calculate(other[1], other[2])
    /\ last_call' = "other"
    /\ interleaved' = (first_result # NoResult)
    /\ UNCHANGED <<prices, period, first_result>>
    /\ UNCHANGED <<catVars, scanVars, lockVars, pairVars, utilVars>>

Next == Calculate \/ CalculateOther

Spec == Init /\ [][Next]_vars

(***************************************************************************)
(* get_score_category applied to every (score, gain) of a bounded grid.    *)
(***************************************************************************)
\* Scores from below 0.0 to above 100.0, in tenths.
ScoreMargin == 5

ScoreValues == (0 - ScoreMargin) .. (1000 + ScoreMargin)

GainValues == {0 - 100, 0 - 1, 0, 1, 500}

InitCategory ==
    /\ prices = <<>>
    /\ period = DefaultPeriod
    /\ CalcIdle
    /\ cat_score \in ScoreValues
    /\ cat_gain \in GainValues
    /\ category = "-"
    /\ ScanIdle
    /\ LockIdle
    /\ PairIdle
    /\ UtilIdle

Categorize ==
    /\ category' = get_score_category(cat_score, cat_gain)
    /\ UNCHANGED <<cat_score, cat_gain>>
    /\ UNCHANGED <<calcVars, scanVars, lockVars, pairVars, utilVars>>

NextCategory == Categorize

SpecCategory == InitCategory /\ [][NextCategory]_vars

(***************************************************************************)
(* run_scanner: one scan of the market, with the active_coins table, the   *)
(* price_cache table and the Telegram notifications (specification         *)
(* SpecScan).  Scores and gains are in tenths, as calculate returns them.  *)
(***************************************************************************)
\* The bounds of the scan model: scans per behaviour, and clock ticks.
MaxScans == 2

MaxTicks == 2

\* UNIFORMITY_MIN_SCORE, default 45, in tenths.
uniformity_min_score == 450

\* PRICE_CACHE_DURATION = 6 * 60 * 60 seconds.
PRICE_CACHE_DURATION == 6 * 60 * 60

\* The clock advances by three hours at a time, so that a cached row is
\* seen at the ages 0 h, 3 h and 6 h (and older).
TickSeconds == 3 * 60 * 60

\* The coins of the market.  Two of them have different symbols and
\* names, and the same formatted key.
CoinX == [name |-> "WRAPPED", symbol |-> "BTC_V2"]

CoinY == [name |-> "WRAPPED_BTC", symbol |-> "V2"]

CoinZ == [name |-> "SOLANA", symbol |-> "SOL"]

CoinUniverse == {CoinX, CoinY, CoinZ}

\* f"{name}_{symbol}": the key of a coin in get_active and
\* get_entered_exited.
FormatKey(name, symbol) == name \o "_" \o symbol

KeyOf(coin) == FormatKey(coin.name, coin.symbol)

\* cg_mapper.get_coin_id(symbol): the CoinGecko id of a coin, one per symbol.
cg_id(coin) == coin.symbol

\* 100, ..., 130 + 100, ..., 158: linear with one bump at the middle.
ScenarioBump ==
    [i \in 1 .. DefaultPeriod |-> 100 + 2 * (i - 1) + (IF i = 16 THEN 100 ELSE 0)]

\* [100] * 5 + [150] * 25: one step early in the period.
ScenarioStep == [i \in 1 .. DefaultPeriod |-> IF i <= 5 THEN 100 ELSE 150]

\* What get_market_chart returns, by name: None, or a list of prices.
ChartNone == "none"

Charts == {ChartNone, "short", "linear", "bump", "step"}

ChartPrices(chart) ==
    CASE chart = "short" -> ScenarioShort
      [] chart = "linear" -> ScenarioLinear
      [] chart = "bump" -> ScenarioBump
      [] chart = "step" -> ScenarioStep

\* What the market says about one coin during one scan: whether it passes
\* the volume and gain filters, whether it has a CoinGecko id, and what
\* get_market_chart would return for it.
CoinFeeds ==
    {[gain_ok |-> FALSE, has_id |-> FALSE, chart |-> ChartNone],
     [gain_ok |-> TRUE, has_id |-> FALSE, chart |-> ChartNone]} \cup
    {[gain_ok |-> TRUE, has_id |-> TRUE, chart |-> c] : c \in Charts}

Feeds == [CoinUniverse -> CoinFeeds]

Range(seq) == {seq[i] : i \in 1 .. Len(seq)}

\* Every order of the elements of a finite set.
Orders(S) ==
    {f \in [1 .. Cardinality(S) -> S] : \A i, j \in 1 .. Cardinality(S) : f[i] = f[j] => i = j}

\* --- CoinLoreCache: the price_cache table, one row per coin_id ---

\* The row cache_price_data writes.  cache_date is datetime.now().isoformat();
\* ISO timestamps of one clock compare as strings in the order of their
\* times, so the model keeps the time in seconds.
CacheRow(score, gain, t) ==
    [uniformity_score |-> score, gains_30d |-> gain, cache_date |-> t]

\* WHERE coin_id = ? AND cache_date >= six_hours_ago.
RowFreshInclusive(cache, coin_id, t) ==
    /\ coin_id \in DOMAIN cache
    /\ cache[coin_id].cache_date >= t - PRICE_CACHE_DURATION

\* WHERE coin_id = ? AND cache_date > six_hours_ago.
RowFresh(cache, coin_id, t) ==
    /\ coin_id \in DOMAIN cache
    /\ cache[coin_id].cache_date > t - PRICE_CACHE_DURATION

\* get_price_data: (True, row) or (False, None).
get_price_data(cache, coin_id, t) ==
    IF RowFresh(cache, coin_id, t)
    THEN [found |-> TRUE, data |-> cache[coin_id]]
    ELSE [found |-> FALSE, data |-> CacheRow(0, 0, 0)]

\* cache_price_data: INSERT OR REPLACE of the row of coin_id.
cache_price_data(cache, coin_id, score, gain, t) ==
    [id \in DOMAIN cache \cup {coin_id} |->
        IF id = coin_id THEN CacheRow(score, gain, t) ELSE cache[id]]

\* --- run_scanner, step by step ---

\* STEP 3: the coins that pass the volume and gain filters.
gain_qualified(feed) == {c \in CoinUniverse : feed[c].gain_ok}

\* STEP 5: those with a CoinGecko id.
coins_with_cg_ids(feed) == {c \in gain_qualified(feed) : feed[c].has_id}

\* STEP 7: the cache check.
cached_coins(cache, t, feed) ==
    {c \in coins_with_cg_ids(feed) : get_price_data(cache, cg_id(c), t).found}

uncached_coins(cache, t, feed) ==
    coins_with_cg_ids(feed) \ cached_coins(cache, t, feed)

\* get_market_chart answers for the coins it is called for, the uncached
\* ones; the feed of the others names no chart.
ChartsAsked(cache, t, feed) ==
    \A c \in cached_coins(cache, t, feed) : feed[c].chart = ChartNone

\* if prices is None: the fetched coins that are logged as rate limited and
\* skipped.
rate_limited_coins(cache, t, feed) ==
    {c \in uncached_coins(cache, t, feed) : feed[c].chart = ChartNone}

\* if prices and len(prices) >= 30: the fetched coins that get a score.
HasPrices(chart) == chart # ChartNone /\ Len(ChartPrices(chart)) >= DefaultPeriod

scored_uncached(cache, t, feed) ==
    {c \in uncached_coins(cache, t, feed) : HasPrices(feed[c].chart)}

\* The coin with its uniformity_score and total_gain.
Processed(coin, score, gain) ==
    [coin |-> coin, uniformity_score |-> score, total_gain |-> gain]

FromCache(cache, t, c) ==
    LET cached == get_price_data(cache, cg_id(c), t).data
    IN  Processed(c, cached.uniformity_score, cached.gains_30d)

\* score, gain = UniformityFilter.calculate(prices, 30), for every chart
\* with 30 prices.
ChartScore ==
    [ch \in {c \in Charts : HasPrices(c)} |-> calculate(ChartPrices(ch), DefaultPeriod)]

FromChart(feed, c) ==
    LET r == chart_score[feed[c].chart]
    IN  Processed(c, r.score, r.gain)

\* all_processed = cached_coins + the uncached coins with a score.
all_processed(cache, t, feed) ==
    {FromCache(cache, t, c) : c \in cached_coins(cache, t, feed)} \cup
    {FromChart(feed, c) : c \in scored_uncached(cache, t, feed)}

\* The cache after the fetches: one cache_price_data per scored coin.
CacheAfter(cache, t, feed) ==
    LET scored == scored_uncached(cache, t, feed)
        ids == {cg_id(c) : c \in scored}
        CoinOf(id) == CHOOSE c \in scored : cg_id(c) = id
    IN  [id \in DOMAIN cache \cup ids |->
            IF id \in ids
            THEN LET p == FromChart(feed, CoinOf(id))
                 IN  cache_price_data(cache, id, p.uniformity_score, p.total_gain, t)[id]
            ELSE cache[id]]

\* The latest cache_price_data call per coin_id after the calls of a scan
\* for the coins of scored: what was passed, and when.
LatestCalls(calls, scored, t, feed) ==
    LET ids == {cg_id(c) : c \in scored}
        CoinOf(id) == CHOOSE c \in scored : cg_id(c) = id
    IN  [id \in DOMAIN calls \cup ids |->
            IF id \in ids
            THEN [score |-> FromChart(feed, CoinOf(id)).uniformity_score,
                  gain |-> FromChart(feed, CoinOf(id)).total_gain,
                  at |-> t]
            ELSE calls[id]]

\* FILTER 3 with the score test dropped: total_gain > 0 only.
PassesUniformityGainOnly(p) == p.total_gain > 0

\* FILTER 3: uniformity_score >= uniformity_min_score and total_gain > 0.
PassesUniformity(p) ==
    /\ p.uniformity_score >= uniformity_min_score
    /\ p.total_gain > 0

uniformity_passed(cache, t, feed) ==
    {p \in all_processed(cache, t, feed) : PassesUniformity(p)}

\* sorted(uniformity_passed, key=uniformity_score, reverse=True): the order
\* of equal scores is the order of all_symbols, the iteration of a set.
SortedByScore(passed) ==
    {f \in Orders(passed) :
        \A i, j \in 1 .. Len(f) : i < j => f[i].uniformity_score >= f[j].uniformity_score}

\* --- ActiveCoinsDatabase.get_entered_exited ---

\* get_active: the rows of the table under their formatted keys.
active_keys(active) == {KeyOf(r) : r \in active}

ActiveAt(active, key) == CHOOSE r \in active : KeyOf(r) = key

\* current_keys and current_dict: a later coin of the list replaces an
\* earlier one with the same key.
current_keys(current) == {KeyOf(current[i].coin) : i \in 1 .. Len(current)}

LastIndex(current, key) ==
    CHOOSE i \in 1 .. Len(current) :
        /\ KeyOf(current[i].coin) = key
        /\ \A j \in 1 .. Len(current) : KeyOf(current[j].coin) = key => j <= i

current_dict(current, key) == current[LastIndex(current, key)].coin

\* The coins appended to entered (and added), as a set.
EnteredSet(active, current) ==
    {current_dict(current, k) : k \in current_keys(current) \ active_keys(active)}

\* The rows appended to exited (and removed).
ExitedSet(active, current) ==
    {ActiveAt(active, k) : k \in active_keys(active) \ current_keys(current)}

\* The table after add_coin and remove_coin (update_coin changes no key).
ActiveAfter(active, current) ==
    (active \cup EnteredSet(active, current)) \ ExitedSet(active, current)

\* The entered list: the loop goes through a set of keys, in any order.
EnteredOrders(active, current) == Orders(EnteredSet(active, current))

\* --- the actions ---

InitScan ==
    /\ prices = <<>>
    /\ period = DefaultPeriod
    /\ CalcIdle
    /\ CatIdle
    /\ telegram \in BOOLEAN
    /\ active_coins = {}
    /\ price_cache = <<>>
    /\ now = 0
    /\ chart_score = ChartScore
    /\ last_cached = <<>>
    /\ ScanLogIdle
    /\ LockIdle
    /\ PairIdle
    /\ UtilIdle

\* A run that returns before STEP 7: nothing is read or written.
EarlyReturn(why) ==
    /\ stage' = why
    /\ processed' = {}
    /\ final_results' = <<>>
    /\ entered' = <<>>
    /\ exited' = {}
    /\ cache_hits' = {}
    /\ fetched' = {}
    /\ entry_msgs' = <<>>
    /\ exit_msgs' = {}
    /\ rate_limited' = {}
    /\ UNCHANGED <<active_coins, price_cache, notified, last_cached, retry_pending>>

\* A run that reaches the end.
FullScan(feed) ==
    /\ stage' = "complete"
    /\ cache_hits' = cached_coins(price_cache, now, feed)
    /\ fetched' = uncached_coins(price_cache, now, feed)
    /\ price_cache' = CacheAfter(price_cache, now, feed)
    /\ processed' = all_processed(price_cache, now, feed)
    /\ final_results' \in SortedByScore(uniformity_passed(price_cache, now, feed))
    /\ entered' \in EnteredOrders(active_coins, final_results')
    /\ exited' = ExitedSet(active_coins, final_results')
    /\ active_coins' = ActiveAfter(active_coins, final_results')
    /\ entry_msgs' = IF telegram THEN entered' ELSE <<>>
    /\ exit_msgs' = IF telegram THEN exited' ELSE {}
    /\ notified' = (notified \ exit_msgs') \cup Range(entry_msgs')
    /\ last_cached' = LatestCalls(last_cached, scored_uncached(price_cache, now, feed), now, feed)
    /\ rate_limited' = rate_limited_coins(price_cache, now, feed)
    /\ retry_pending' = (retry_pending \ Range(entered'))
                            \cup (rate_limited' \cap active_coins)

\* run_scanner: one scan.  CoinMarketCap returns nothing, or the market
\* is as feed says.
RunScanner ==
    /\ scan_no < MaxScans
    /\ scan_no' = scan_no + 1
    /\ \/ EarlyReturn("no_cmc_data")
       \/ \E feed \in {f \in Feeds : ChartsAsked(price_cache, now, f)} :
            IF gain_qualified(feed) = {} THEN EarlyReturn("no_gain_qualified")
            ELSE IF coins_with_cg_ids(feed) = {} THEN EarlyReturn("no_cg_ids")
            ELSE FullScan(feed)
    /\ UNCHANGED <<telegram, now, chart_score>>
    /\ UNCHANGED <<calcVars, catVars, lockVars, pairVars, utilVars>>

\* Time passes between two scans.
Tick ==
    /\ now < MaxTicks * TickSeconds
    /\ now' = now + TickSeconds
    /\ UNCHANGED <<telegram, active_coins, price_cache, scan_no, stage,
                   processed, final_results, entered, exited, cache_hits, fetched,
                   entry_msgs, exit_msgs, notified, chart_score, last_cached,
                   rate_limited, retry_pending>>
    /\ UNCHANGED <<calcVars, catVars, lockVars, pairVars, utilVars>>

NextScan == RunScanner \/ Tick

SpecScan == InitScan /\ [][NextScan]_vars

(***************************************************************************)
(* ScanScheduler.run with ScanLock: scheduler processes that each open the *)
(* lock file, try a non-blocking flock, run the scan, unlock, close and    *)
(* unlink the file (specification SpecLock).  A process is one call of     *)
(* run; it stays alive after run returns.                                  *)
(***************************************************************************)
\* __exit__ releasing only when the with block raised nothing.
ExitReleasesNoException(file, exc) == file # NoFile /\ exc = "none"

\* __exit__: if self.fp, whatever the exception.
ExitReleases(file, exc) == file # NoFile

\* run: except RuntimeError, except Exception.
RunCatches(exc) == exc \in {"RuntimeError", "Exception"}

InitLock ==
    /\ prices = <<>>
    /\ period = DefaultPeriod
    /\ CalcIdle
    /\ CatIdle
    /\ ScanIdle
    /\ LockIdle
    /\ PairIdle
    /\ UtilIdle

\* self.fp = open(self.lock_file, 'w'): the file the path names, made new
\* if the path names none.
Open(p) ==
    /\ pc[p] = "idle"
    /\ IF path_file = NoFile
       THEN /\ files_made < NumProcs
            /\ files_made' = files_made + 1
            /\ path_file' = files_made + 1
       ELSE UNCHANGED <<files_made, path_file>>
    /\ fp' = [fp EXCEPT ![p] = path_file']
    /\ pc' = [pc EXCEPT ![p] = "opened"]
    /\ finished_before' =
        [finished_before EXCEPT ![p] = {q \in Procs : pc[q] = "done"}]
    /\ UNCHANGED <<holder, scan_exc, outcome, escaped>>
    /\ UNCHANGED <<calcVars, catVars, scanVars, pairVars, utilVars>>

\* fcntl.flock(self.fp, LOCK_EX | LOCK_NB): the lock on the open file, or
\* IOError, turned into RuntimeError, which run catches and logs; the file
\* stays open.
Flock(p) ==
    /\ pc[p] = "opened"
    /\ IF holder[fp[p]] = NoProc
       THEN /\ holder' = [holder EXCEPT ![fp[p]] = p]
            /\ pc' = [pc EXCEPT ![p] = "scanning"]
            /\ UNCHANGED outcome
            /\ UNCHANGED escaped
       ELSE /\ pc' = [pc EXCEPT ![p] = "done"]
            /\ outcome' = [outcome EXCEPT ![p] = "locked_out"]
            /\ escaped' = [escaped EXCEPT ![p] = ~RunCatches("RuntimeError")]
            /\ UNCHANGED holder
    /\ UNCHANGED <<fp, path_file, files_made, scan_exc, finished_before>>
    /\ UNCHANGED <<calcVars, catVars, scanVars, pairVars, utilVars>>

\* run_scan returns, or raises what scan_main raised.
RunScan(p) ==
    /\ pc[p] = "scanning"
    /\ \E exc \in {"none", "Exception"} : scan_exc' = [scan_exc EXCEPT ![p] = exc]
    /\ pc' = [pc EXCEPT ![p] = "exit"]
    /\ UNCHANGED <<fp, path_file, files_made, holder, outcome, escaped, finished_before>>
    /\ UNCHANGED <<calcVars, catVars, scanVars, pairVars, utilVars>>

\* __exit__: fcntl.flock(self.fp, LOCK_UN), if self.fp.
Unlock(p) ==
    /\ pc[p] = "exit"
    /\ IF ExitReleases(fp[p], scan_exc[p])
       THEN /\ holder' = [holder EXCEPT ![fp[p]] = NoProc]
            /\ pc' = [pc EXCEPT ![p] = "unlocked"]
       ELSE /\ pc' = [pc EXCEPT ![p] = "closed"]
            /\ UNCHANGED holder
    /\ UNCHANGED <<fp, path_file, files_made, scan_exc, outcome, escaped, finished_before>>
    /\ UNCHANGED <<calcVars, catVars, scanVars, pairVars, utilVars>>

\* self.fp.close(); self.lock_file.unlink(): the path is removed, whatever
\* file it names now; unlink of a missing path raises, and the error is
\* passed over.
CloseUnlink(p) ==
    /\ pc[p] = "unlocked"
    /\ fp' = [fp EXCEPT ![p] = NoFile]
    /\ path_file' = NoFile
    /\ pc' = [pc EXCEPT ![p] = "closed"]
    /\ UNCHANGED <<files_made, holder, scan_exc, outcome, escaped, finished_before>>
    /\ UNCHANGED <<calcVars, catVars, scanVars, pairVars, utilVars>>

\* run returns: the exception of run_scan comes out of the with block and
\* run's except Exception logs it.
RunReturns(p) ==
    /\ pc[p] = "closed"
    /\ outcome' = [outcome EXCEPT ![p] = IF scan_exc[p] = "none" THEN "completed" ELSE "scan_failed"]
    /\ escaped' = [escaped EXCEPT ![p] = scan_exc[p] # "none" /\ ~RunCatches(scan_exc[p])]
    /\ pc' = [pc EXCEPT ![p] = "done"]
    /\ UNCHANGED <<fp, path_file, files_made, holder, scan_exc, finished_before>>
    /\ UNCHANGED <<calcVars, catVars, scanVars, pairVars, utilVars>>

NextLock ==
    \E p \in Procs :
        Open(p) \/ Flock(p) \/ RunScan(p) \/ Unlock(p) \/ CloseUnlink(p) \/ RunReturns(p)

SpecLock == InitLock /\ [][NextLock]_vars

(***************************************************************************)
(* calculate on two lists with one period, one first and one last price    *)
(* (specification SpecPair).                                               *)
(***************************************************************************)
\* The lists of n prices that rise from a positive first price.
RisingPaths(n) ==
    {q \in [1 .. n -> PriceValues] : q[1] >= 1 /\ q[n] > q[1]}

\* The 30-sample paths from 100 to 150, all multiplied by 1218 = 29 * 42 to
\* make every price an integer (calculate works on the ratios to the first
\* price).  Smooth: 100 + 50 * i / 29.
ScenarioSmooth == [i \in 1 .. DefaultPeriod |-> 42 * (2900 + 50 * (i - 1))]

\* Spike: 100, but 300 at the midpoint, and 150 at the end.
ScenarioSpike ==
    [i \in 1 .. DefaultPeriod |->
        1218 * (IF i = 16 THEN 300 ELSE IF i = DefaultPeriod THEN 150 ELSE 100)]

\* Peak: linearly up to 300 at the midpoint, then linearly down to 150.
ScenarioPeak ==
    [i \in 1 .. DefaultPeriod |->
        29 * (IF i <= 16 THEN 4200 + 560 * (i - 1) ELSE 12600 - 450 * (i - 16))]

PairScenarios == {ScenarioSmooth, ScenarioSpike, ScenarioPeak}

InitPair ==
    /\ prices = <<>>
    /\ period = DefaultPeriod
    /\ CalcIdle
    /\ CatIdle
    /\ ScanIdle
    /\ LockIdle
    /\ UtilIdle
    /\ \/ /\ pair_period \in 2 .. MaxLen
          /\ path_a \in RisingPaths(pair_period)
          /\ path_b \in {q \in RisingPaths(pair_period) :
                            q[1] = path_a[1] /\ q[pair_period] = path_a[pair_period]}
       \/ /\ pair_period = DefaultPeriod
          /\ path_a \in PairScenarios
          /\ path_b \in PairScenarios
    /\ result_a = NoResult
    /\ result_b = NoResult

\* The two calls.
CalculatePair ==
    /\ result_a = NoResult
    /\ result_a' = calculate(path_a, pair_period)
    /\ result_b' = calculate(path_b, pair_period)
    /\ UNCHANGED <<path_a, path_b, pair_period>>
    /\ UNCHANGED <<calcVars, catVars, scanVars, lockVars, utilVars>>

NextPair == CalculatePair

SpecPair == InitPair /\ [][NextPair]_vars

(***************************************************************************)
(* Claims about UniformityFilter.calculate (specification Spec).           *)
(***************************************************************************)
\* The caller's call has returned or raised.
Called == last_call = "main"

\* The caller's list holds a whole window of period >= 1 prices.
HasWindow == period >= 1 /\ Len(prices) >= period

\* prices[-period], the oldest price of the window, and prices[-1].
WindowBase == prices[Len(prices) - period + 1]

WindowLast == prices[Len(prices)]

\* The window's price i (0-based, as in the code).
WindowAt(i) == prices[Len(prices) - period + 1 + i]

\* The cumulative % change from window start to window end.
WindowGain == Rat(100 * (WindowLast - WindowBase), WindowBase)

PositiveGainWindow == HasWindow /\ WindowBase > 0 /\ WindowLast > WindowBase

\* C1: for every price sequence and every period >= 1, the score calculate
\* returns lies in [0, 100] (0 .. 1000 tenths), on every return path.
C1_ScoreInRange ==
    /\ (Called /\ period >= 1 /\ result.kind = "return")
          => (0 <= result.score /\ result.score <= 1000)
    /\ (last_call = "other" /\ result.kind = "return")
          => (0 <= result.score /\ result.score <= 1000)

\* A call that went through the scoring path and returned a score strictly
\* between 0 and 100.
C1_Witness ==
    /\ Called /\ PositiveGainWindow
    /\ result.kind = "return"
    /\ 0 < result.score /\ result.score < 1000

\* C2: whenever len(prices) < period (the empty list included), calculate
\* returns (0.0, 0.0), for every period.
C2_ShortReturnsZero ==
    (Called /\ Len(prices) < period) => result = Return(0, 0)

\* A call on a non-empty list one price short of the period, whose prices rise.
C2_Witness ==
    /\ Called
    /\ Len(prices) = period - 1 /\ Len(prices) >= 2
    /\ prices[1] > 0 /\ prices[Len(prices)] > prices[1]
    /\ result = Return(0, 0)

\* C3: when len(prices) >= period and prices[-period] <= 0, calculate returns
\* (0.0, 0.0); the division by the base price is not reached (no
\* ZeroDivisionError).
C3_NonPositiveBaseReturnsZero ==
    (Called /\ HasWindow /\ WindowBase <= 0) => result = Return(0, 0)

\* A call on a window whose base price is 0 and whose last price is positive.
C3_Witness ==
    /\ Called /\ HasWindow
    /\ WindowBase = 0 /\ WindowLast > 0
    /\ result = Return(0, 0)

\* C4: for every window with positive base and total gain <= 0, calculate
\* returns score 0 and the total gain rounded to one decimal (not 0.0),
\* whatever the interior of the window is.
C4_LossReportsGain ==
    (Called /\ HasWindow /\ WindowBase > 0 /\ WindowLast <= WindowBase)
        => result = Return(0, Round1(WindowGain))

\* A call on a losing window whose interior rises above the base: score 0
\* and a negative gain.
C4_Witness ==
    /\ Called /\ HasWindow /\ period >= 3
    /\ WindowBase > 0 /\ WindowLast < WindowBase
    /\ \E i \in 1 .. period - 2 : WindowAt(i) > WindowBase
    /\ result.kind = "return" /\ result.score = 0 /\ result.gain < 0

\* C5: calculate never raises for period >= 1: every call ends in a returned
\* pair, and a window of period 1 (denominator period - 1 = 0) returns the
\* zero result without dividing.
C5_NeverRaises ==
    /\ (Called /\ period >= 1) => result.kind = "return"
    /\ (Called /\ period = 1 /\ HasWindow) => result = Return(0, 0)
    /\ last_call = "other" => result.kind = "return"

\* A call with period 1 on a list ending in a positive price.
C5_Witness ==
    /\ Called /\ period = 1 /\ HasWindow
    /\ WindowLast > 0
    /\ result = Return(0, 0)

\* The window's prices are in arithmetic progression: its cumulative curve is
\* the straight line, cum[i] = ideal[i] for all i.
ArithmeticWindow ==
    \A i \in 0 .. period - 1 :
        (WindowAt(i) - WindowBase) * (period - 1) = i * (WindowLast - WindowBase)

\* C6: for every positive-gain window whose cumulative curve is exactly linear
\* the total deviation is 0 and calculate returns score 100.0 with the
\* rounded gain; 100, 102, ..., 158 with period 30 gives (100.0, 58.0).
C6_LinearScores100 ==
    /\ (Called /\ PositiveGainWindow /\ ArithmeticWindow)
          => /\ result = Return(1000, Round1(WindowGain))
             /\ LET cum == cumulative_pcts(prices_period(prices, period))
                    ideal == ideal_line(daily_uniform_gain(total_gain(cum), period), period)
                IN  total_deviation(cum, ideal, period) = RInt(0)
    /\ (Called /\ prices = ScenarioLinear /\ period = DefaultPeriod)
          => result = Return(1000, 580)

\* The call on 100, 102, ..., 158 with period 30 has returned.
C6_Witness ==
    /\ Called /\ prices = ScenarioLinear /\ period = DefaultPeriod
    /\ PositiveGainWindow /\ ArithmeticWindow
    /\ result.kind = "return"

\* The total absolute deviation of the window from its ideal line, and the
\* normalizer total_gain * (period - 1), both multiplied by
\* base * (period - 1) / 100 (integers).
ScaledDeviation ==
    LET term(i) == Abs((WindowAt(i) - WindowBase) * (period - 1)
                        - i * (WindowLast - WindowBase))
        sum[i \in 0 .. period - 1] == IF i = 0 THEN term(0) ELSE sum[i - 1] + term(i)
    IN  sum[period - 1]

ScaledNormalizer == (WindowLast - WindowBase) * (period - 1) * (period - 1)

\* C7: whenever the total absolute deviation of a positive-gain window is at
\* least total_gain * (period - 1), calculate returns score 0.0 (not a
\* negative score, not an error).
C7_OvershootScoresZero ==
    (Called /\ PositiveGainWindow /\ ScaledDeviation >= ScaledNormalizer)
        => result = Return(0, Round1(WindowGain))

\* A call on a positive-gain window of positive prices that overshoots.
C7_Witness ==
    /\ Called /\ PositiveGainWindow /\ period >= 3
    /\ \A i \in 0 .. period - 1 : WindowAt(i) > 0
    /\ ScaledDeviation > ScaledNormalizer
    /\ result.kind = "return" /\ result.score = 0

\* The normalized deviation of the reference algorithm, from the closed
\* forms: total deviation over total_gain * (period - 1), clamped to [0, 1].
ReferenceDeviation ==
    LET nd == IF ScaledNormalizer > 0 THEN Rat(ScaledDeviation, ScaledNormalizer)
              ELSE RInt(0)
    IN  IF RLess(nd, RInt(0)) THEN RInt(0)
        ELSE IF RLess(RInt(1), nd) THEN RInt(1)
        ELSE nd

\* The reference result: round(clamp(raw_score, 0, 100), 1), where raw_score
\* = 100 * (1 - sqrt(nd)) is within [0, 100] for nd in [0, 1], so that the
\* clamp leaves it alone and the rounding is all that is left.
ReferenceResult == Return(RoundRawScore(ReferenceDeviation), Round1(WindowGain))

\* C8: for every window passing the preconditions the denominator the loop
\* accumulates equals total_gain * (period - 1), and the code's result
\* (round, then clamp) equals the reference algorithm's (clamp, then round).
C8_MatchesReference ==
    (Called /\ PositiveGainWindow)
        => /\ LET gain == total_gain(cumulative_pcts(prices_period(prices, period)))
              IN  max_possible_deviation(gain, period) = RMul(gain, RInt(period - 1))
           /\ result = ReferenceResult

\* A call on a positive-gain window off the ideal line, short of the clamp.
C8_Witness ==
    /\ Called /\ PositiveGainWindow
    /\ 0 < ScaledDeviation /\ ScaledDeviation < ScaledNormalizer
    /\ result = ReferenceResult

Labels == <<"Perfect", "Excellent", "Good", "Fair", "Poor", "Bad", "Negative Return">>

Rank(label) == CHOOSE i \in 1 .. Len(Labels) : Labels[i] = label

\* The table of the specification, each row with the rows above it excluded.
TableLabel(score, gain) ==
    CASE gain <= 0 -> "Negative Return"
      [] gain > 0 /\ score >= 900 -> "Perfect"
      [] gain > 0 /\ 750 <= score /\ score < 900 -> "Excellent"
      [] gain > 0 /\ 600 <= score /\ score < 750 -> "Good"
      [] gain > 0 /\ 450 <= score /\ score < 600 -> "Fair"
      [] gain > 0 /\ 200 <= score /\ score < 450 -> "Poor"
      [] gain > 0 /\ score < 200 -> "Bad"

\* C10: get_score_category returns exactly one of the seven labels, the first
\* match of the table; gain <= 0 gives Negative Return for every score; for
\* gain > 0 a higher score never gives a lower-ranked label.
C10_CategoryTable ==
    category # "-" =>
        /\ \E i \in 1 .. Len(Labels) : Labels[i] = category
        /\ category = TableLabel(cat_score, cat_gain)
        /\ cat_gain <= 0 => category = "Negative Return"
        /\ cat_gain > 0 =>
              \A lower \in ScoreValues :
                  lower <= cat_score =>
                      Rank(get_score_category(lower, cat_gain)) >= Rank(category)

\* The call get_score_category(44.9, gain > 0) has returned Poor: the score
\* just below the Fair threshold.
C10_Witness ==
    /\ cat_score = 449 /\ cat_gain > 0
    /\ category = "Poor"

(***************************************************************************)
(* Claims about run_scanner and the active_coins table (specification      *)
(* SpecScan).                                                              *)
(***************************************************************************)
\* The step is one run of run_scanner.
ScanStep == scan_no' = scan_no + 1

\* The coins of final_results.
FinalCoins(final) == {final[i].coin : i \in 1 .. Len(final)}

\* The coin has a score that passes FILTER 3 in the run's all_processed.
Qualifies(all, coin) ==
    \E p \in all :
        /\ p.coin = coin
        /\ p.uniformity_score >= uniformity_min_score
        /\ p.total_gain > 0

\* C11: in every scan, a coin that has no score, a score below
\* uniformity_min_score or a total_gain that is not positive is not in
\* final_results, is not added to the active set and gets no entry
\* notification.
C11_OnlyQualifiedEnter ==
    [][ScanStep =>
        \A c \in CoinUniverse :
            ~Qualifies(processed', c) =>
                /\ c \notin FinalCoins(final_results')
                /\ c \notin active_coins' \ active_coins
                /\ c \notin Range(entered')
                /\ c \notin Range(entry_msgs')]_vars

\* A complete scan with a coin scored below the threshold and kept out,
\* and another coin entered and notified.
C11_Witness ==
    /\ stage = "complete"
    /\ \E p \in processed :
        /\ p.uniformity_score < uniformity_min_score
        /\ p.total_gain > 0
        /\ p.coin \notin FinalCoins(final_results)
        /\ p.coin \notin active_coins
    /\ entry_msgs # <<>>
    /\ Range(entry_msgs) \subseteq active_coins

\* The score of a coin of final_results.
ScoreIn(final, coin) ==
    (CHOOSE p \in Range(final) : p.coin = coin).uniformity_score

\* C12: within one scan, the entry notifications are sent in
\* non-increasing uniformity_score order.
C12_EntryOrderDescending ==
    \A i, j \in 1 .. Len(entry_msgs) :
        i < j => ScoreIn(final_results, entry_msgs[i]) >= ScoreIn(final_results, entry_msgs[j])

\* C13: in every scan with Telegram configured, each coin active at the
\* start and not in the scan's qualified set is removed from the active set
\* and gets an exit notification, whatever passed the earlier stages.
C13_UnqualifiedActiveExit ==
    [][(ScanStep /\ telegram) =>
        \A c \in active_coins :
            c \notin FinalCoins(final_results') =>
                /\ c \notin active_coins'
                /\ c \in exit_msgs']_vars

\* C14: with Telegram configured, a coin gets an entry notification in
\* exactly the scans where it is in the qualified set and was not active at
\* the start, and never a second one without an exit in between.
C14_EntryExactlyOnce ==
    [][(ScanStep /\ telegram) =>
        \A c \in CoinUniverse :
            /\ c \in Range(entry_msgs') <=>
                (c \in FinalCoins(final_results') /\ c \notin active_coins)
            /\ c \in Range(entry_msgs') => c \notin notified]_vars

\* C14 for the coins whose formatted key no other coin of the market has.
OwnKey(coin) == \A d \in CoinUniverse : KeyOf(d) = KeyOf(coin) => d = coin

EntryExactlyOnceOwnKey ==
    [][(ScanStep /\ telegram) =>
        \A c \in {d \in CoinUniverse : OwnKey(d)} :
            /\ c \in Range(entry_msgs') <=>
                (c \in FinalCoins(final_results') /\ c \notin active_coins)
            /\ c \in Range(entry_msgs') => c \notin notified]_vars

(***************************************************************************)
(* Claims about get_entered_exited and the price cache (specification      *)
(* SpecScan).                                                              *)
(***************************************************************************)
\* C17: after get_entered_exited(current), the coins stored in active_coins
\* are the coins of current; entered is exactly the current coins not
\* active before, exited is exactly the active coins not in current, and no
\* coin is in both.
C17_ActiveEqualsCurrent ==
    [][(ScanStep /\ stage' = "complete") =>
        /\ active_coins' = FinalCoins(final_results')
        /\ Range(entered') = FinalCoins(final_results') \ active_coins
        /\ exited' = active_coins \ FinalCoins(final_results')
        /\ Range(entered') \cap exited' = {}]_vars

\* No two different coins of the table and of current have one formatted key.
DistinctKeys(coins) == \A c, d \in coins : KeyOf(c) = KeyOf(d) => c = d

\* C17 for the calls where the formatted keys tell the coins apart.
ActiveEqualsCurrentDistinctKeys ==
    [][(ScanStep /\ stage' = "complete"
            /\ DistinctKeys(active_coins \cup FinalCoins(final_results'))) =>
        /\ active_coins' = FinalCoins(final_results')
        /\ Range(entered') = FinalCoins(final_results') \ active_coins
        /\ exited' = active_coins \ FinalCoins(final_results')
        /\ Range(entered') \cap exited' = {}]_vars

\* The coin's record in all_processed.
ProcessedOf(all, coin) == CHOOSE p \in all : p.coin = coin

Scanning == {p \in Procs : pc[p] = "scanning"}

\* C18: under any interleaving of the scheduler processes, at most one
\* process is inside run_scan at any time.
C18_OneScanAtATime == Cardinality(Scanning) <= 1

\* Every other process has not started or has returned from run.
Alone(p) == \A q \in Procs \ {p} : pc[q] \in {"idle", "done"}

\* C19: when run has returned, after a scan that completed or raised, the
\* process holds no lock and no exception has left run; and a scheduler
\* that runs while no other is between open and return finds the lock
\* free.
C19_LockReleased ==
    /\ \A p \in Procs :
        pc[p] = "done" =>
            /\ \A f \in Files : holder[f] # p
            /\ ~escaped[p]
    /\ \A p \in Procs :
        (pc[p] = "opened" /\ Alone(p)) => holder[fp[p]] = NoProc

\* A scheduler that started after another's scan had failed, alone, and is
\* inside run_scan.
C19_Witness ==
    \E p \in Procs :
        /\ pc[p] = "scanning"
        /\ Alone(p)
        /\ \E q \in finished_before[p] : outcome[q] = "scan_failed"

(***************************************************************************)
(* Claims about the shape of the path (specifications SpecPair and Spec).  *)
(***************************************************************************)
\* The total absolute deviation of a list from its ideal line, multiplied by
\* first price * (length - 1) / 100 (an integer).
PathDeviation(w) ==
    LET n == Len(w)
        term(i) == Abs((w[i + 1] - w[1]) * (n - 1) - i * (w[n] - w[1]))
        sum[i \in 0 .. n - 1] == IF i = 0 THEN term(0) ELSE sum[i - 1] + term(i)
    IN  sum[n - 1]

\* C15: of two lists with one period, one first and one last price and a
\* positive gain, the one with the smaller or equal total absolute deviation
\* has the greater or equal score, and both report the same gain; the
\* 30-sample paths from 100 to 150 that go through 300 at the midpoint
\* score strictly lower than the linear one, all with gain 50.0.
C15_ScoreFallsWithDeviation ==
    result_a # NoResult =>
        /\ result_a.kind = "return" /\ result_b.kind = "return"
        /\ result_a.gain = result_b.gain
        /\ PathDeviation(path_a) <= PathDeviation(path_b) => result_a.score >= result_b.score
        /\ (path_a = ScenarioSmooth /\ path_b \in {ScenarioSpike, ScenarioPeak}) =>
              /\ result_a.score > result_b.score
              /\ result_a.gain = 500 /\ result_b.gain = 500

\* The calls on the linear path and on the path with the spike have returned.
C15_Witness ==
    /\ path_a = ScenarioSmooth /\ path_b = ScenarioSpike
    /\ PathDeviation(path_a) = 0 /\ PathDeviation(path_b) > 0
    /\ result_a = Return(1000, 500)
    /\ result_b = Return(235, 500)

\* Each price of the window is the previous one times one factor > 1.
GeometricWindow ==
    /\ HasWindow /\ period >= 2
    /\ WindowBase > 0
    /\ WindowAt(1) > WindowBase
    /\ \A i \in 1 .. period - 2 : WindowAt(i) * WindowAt(i) = WindowAt(i - 1) * WindowAt(i + 1)

\* C16 as stated: a window growing by a constant factor > 1 has total
\* deviation 0 and scores 100.0.
C16_GeometricScores100 ==
    (Called /\ GeometricWindow) =>
        /\ ScaledDeviation = 0
        /\ result = Return(1000, Round1(WindowGain))

\* C16, amended: a window growing by a constant factor > 1 is on the ideal
\* line, with score 100.0, only when it has two prices; with three or more
\* prices its total deviation is positive and its score is the rounded
\* 100 * (1 - sqrt(normalized deviation)), below 100.0 unless the rounding
\* hides the deviation; 1, 2, 4 gives (71.1, 300.0).
C16_GeometricNotLinear ==
    /\ (Called /\ GeometricWindow /\ period = 2) =>
          /\ ScaledDeviation = 0
          /\ result = Return(1000, Round1(WindowGain))
    /\ (Called /\ GeometricWindow /\ period >= 3) =>
          /\ ScaledDeviation > 0
          /\ result = Return(RoundRawScore(ReferenceDeviation), Round1(WindowGain))
          /\ ~RawAtLeast(ReferenceDeviation, 1000) => result.score < 1000
    /\ (Called /\ prices = <<1, 2, 4>> /\ period = 3) => result = Return(711, 3000)

\* The call on 1, 2, 4 with period 3 has returned.
C16_Witness ==
    /\ Called /\ GeometricWindow
    /\ prices = <<1, 2, 4>> /\ period = 3
    /\ ScaledDeviation > 0
    /\ result.kind = "return" /\ result.score = 711

\* The price_cache row of the coin, or the marker of no row.
CacheRowOf(cache, coin) ==
    IF cg_id(coin) \in DOMAIN cache THEN <<cache[cg_id(coin)]>> ELSE <<>>

\* What C21 says of the coins in cs in one scan.
RateLimitedIn(cs) ==
    /\ \A c \in cs \cap rate_limited' :
          /\ \A p \in processed' : p.coin # c
          /\ c \notin FinalCoins(final_results')
          /\ CacheRowOf(price_cache', c) = CacheRowOf(price_cache, c)
          /\ c \in active_coins => (c \notin active_coins' /\ c \in exited')
    /\ \A c \in cs \cap retry_pending :
          (c \in fetched' /\ c \notin rate_limited' /\ Qualifies(processed', c)) =>
              c \in Range(entered')

\* C21: a coin whose fetch returns None in a scan gets no score, is not in
\* the scan's final_results and gets no cache row written; if it was active
\* before the scan it is removed from the active set and is in the scan's
\* exited coins, and a later scan in which its fetch succeeds and it
\* qualifies has it in its entered coins.
C21_RateLimitedExitsAndReturns ==
    [][ScanStep => RateLimitedIn(CoinUniverse)]_vars

\* C21 for the coins whose formatted key is their own.
RateLimitedOwnKey ==
    [][ScanStep => RateLimitedIn({d \in CoinUniverse : OwnKey(d)})]_vars

(***************************************************************************)
(* CircuitBreaker: one breaker, one caller and the clock (specification     *)
(* SpecBreaker).  A call is two steps, its entry and the return or the     *)
(* exception of the wrapped function; time passes between and during the   *)
(* calls.  The function raises exceptions that derive from Exception.      *)
(***************************************************************************)

\* The bounds of the breaker model: the failure_threshold and the
\* recovery_timeout arguments, the clock and the calls.
MaxThreshold == 2
MaxTimeout == 2
MaxClock == 4
MaxCalls == 5

STATES == {"CLOSED", "OPEN", "HALF_OPEN"}

\* time.time() - self.last_failure_time >= self.recovery_timeout
RecoveryElapsedInclusive(t, last, timeout) == t - last >= timeout

\* time.time() - self.last_failure_time > self.recovery_timeout
RecoveryElapsed(t, last, timeout) == t - last > timeout

\* The state and the failure_count fields.
Fields(st, count) == [state |-> st, failure_count |-> count]

\* A success that moves HALF_OPEN to CLOSED and keeps failure_count.
AfterSuccessKeepsCount(st, count) ==
    Fields(IF st = "HALF_OPEN" THEN "CLOSED" ELSE st, count)

\* A success that resets failure_count in every state.
AfterSuccessResetsCount(st, count) ==
    Fields(IF st = "HALF_OPEN" THEN "CLOSED" ELSE st, 0)

\* The fields after the wrapped function has returned.
AfterSuccess(st, count) ==
    IF st = "HALF_OPEN" THEN Fields("CLOSED", 0) ELSE Fields(st, count)

\* The fields after the wrapped function has raised.
AfterFailure(st, count, threshold) ==
    IF st = "HALF_OPEN" \/ count + 1 >= threshold
    THEN Fields("OPEN", count + 1)
    ELSE Fields(st, count + 1)

\* CircuitBreaker(failure_threshold, recovery_timeout)
InitBreaker ==
    /\ prices = <<>>
    /\ period = DefaultPeriod
    /\ CalcIdle
    /\ CatIdle
    /\ ScanIdle
    /\ LockIdle
    /\ PairIdle
    /\ RetryIdle
    /\ failure_threshold \in 0 .. MaxThreshold
    /\ recovery_timeout \in 0 .. MaxTimeout
    /\ state = "CLOSED"
    /\ failure_count = 0
    /\ last_failure_time = 0
    /\ cb_time = 0
    /\ cb_pc = "idle"
    /\ cb_calls = 0
    /\ invoked = 0
    /\ entry_state = "CLOSED"
    /\ func_outcome = "none"
    /\ call_result = "none"
    /\ failed_calls = 0
    /\ success_between = FALSE

BreakerFrame ==
    /\ UNCHANGED <<failure_threshold, recovery_timeout>>
    /\ UNCHANGED <<calcVars, catVars, scanVars, lockVars, pairVars, retryVars>>

\* call, up to the invocation of the wrapped function.
CallEnter ==
    /\ cb_pc = "idle"
    /\ cb_calls < MaxCalls
    /\ cb_calls' = cb_calls + 1
    /\ entry_state' = state
    /\ func_outcome' = "none"
    /\ IF state = "OPEN" /\ ~RecoveryElapsed(cb_time, last_failure_time, recovery_timeout)
       THEN /\ call_result' = "circuit_open"
            /\ invoked' = 0
            /\ UNCHANGED <<state, cb_pc>>
       ELSE /\ state' = IF state = "OPEN" THEN "HALF_OPEN" ELSE state
            /\ call_result' = "pending"
            /\ invoked' = 1
            /\ cb_pc' = "in_func"
    /\ UNCHANGED <<failure_count, last_failure_time, cb_time, failed_calls,
                   success_between>>
    /\ BreakerFrame

\* call, from the return of the wrapped function.
FuncReturns ==
    /\ cb_pc = "in_func"
    /\ cb_pc' = "idle"
    /\ func_outcome' = "returned"
    /\ call_result' = "returned"
    /\ state' = AfterSuccess(state, failure_count).state
    /\ failure_count' = AfterSuccess(state, failure_count).failure_count
    /\ failed_calls' = IF state = "HALF_OPEN" THEN 0 ELSE failed_calls
    /\ success_between' = IF state = "HALF_OPEN" THEN FALSE
                          ELSE success_between \/ failed_calls > 0
    /\ UNCHANGED <<last_failure_time, cb_time, cb_calls, invoked, entry_state>>
    /\ BreakerFrame

\* call, from the exception of the wrapped function.
FuncRaises ==
    /\ cb_pc = "in_func"
    /\ cb_pc' = "idle"
    /\ func_outcome' = "raised"
    /\ call_result' = "raised"
    /\ state' = AfterFailure(state, failure_count, failure_threshold).state
    /\ failure_count' = AfterFailure(state, failure_count, failure_threshold).failure_count
    /\ last_failure_time' = cb_time
    /\ failed_calls' = failed_calls + 1
    /\ UNCHANGED <<cb_time, cb_calls, invoked, entry_state, success_between>>
    /\ BreakerFrame

\* Time passes.
TickBreaker ==
    /\ cb_time < MaxClock
    /\ cb_time' = cb_time + 1
    /\ UNCHANGED <<state, failure_count, last_failure_time, cb_pc, cb_calls,
                   invoked, entry_state, func_outcome, call_result,
                   failed_calls, success_between>>
    /\ BreakerFrame

NextBreaker == CallEnter \/ FuncReturns \/ FuncRaises \/ TickBreaker

SpecBreaker == InitBreaker /\ [][NextBreaker]_vars

(***************************************************************************)
(* Claims about CircuitBreaker (specification SpecBreaker).                *)
(***************************************************************************)

\* The step is the entry of a call.
CallStep == cb_pc = "idle" /\ cb_calls' = cb_calls + 1

\* The step is the end of the wrapped function in a call.
FuncStep == cb_pc = "in_func" /\ cb_pc' = "idle"

\* time.time() - last_failure_time
Elapsed == cb_time - last_failure_time

\* C22: a call that finds the circuit OPEN no more than recovery_timeout
\* after last_failure_time raises without invoking the wrapped function and
\* leaves state, failure_count and last_failure_time as they are; the state
\* is always one of CLOSED, OPEN, HALF_OPEN.
C22_OpenFailsFast ==
    /\ [](state \in STATES)
    /\ [][(CallStep /\ state = "OPEN" /\ Elapsed <= recovery_timeout) =>
            /\ call_result' = "circuit_open"
            /\ invoked' = 0
            /\ cb_pc' = "idle"
            /\ UNCHANGED <<state, failure_count, last_failure_time>>]_vars

\* A call has failed fast exactly recovery_timeout after the last failure.
C22_Witness ==
    /\ call_result = "circuit_open" /\ cb_pc = "idle"
    /\ state = "OPEN" /\ invoked = 0
    /\ recovery_timeout >= 1
    /\ Elapsed = recovery_timeout

\* C23: a call that finds the circuit OPEN more than recovery_timeout after
\* the last failure moves it to HALF_OPEN and invokes the wrapped function
\* once; when the function returns the circuit is CLOSED with failure_count
\* 0 and the call returns, and when it raises the circuit is OPEN again,
\* last_failure_time is the time of the failure and the call raises.
C23_TrialCall ==
    /\ []((cb_pc = "in_func" /\ entry_state = "OPEN") =>
            (state = "HALF_OPEN" /\ invoked = 1))
    /\ [][/\ (CallStep /\ state = "OPEN" /\ Elapsed > recovery_timeout) =>
                /\ state' = "HALF_OPEN"
                /\ cb_pc' = "in_func"
                /\ invoked' = 1
          /\ (FuncStep /\ entry_state = "OPEN") =>
                /\ invoked' = 1
                /\ func_outcome' \in {"returned", "raised"}
                /\ func_outcome' = "returned" =>
                      /\ call_result' = "returned"
                      /\ state' = "CLOSED"
                      /\ failure_count' = 0
                /\ func_outcome' = "raised" =>
                      /\ call_result' = "raised"
                      /\ state' = "OPEN"
                      /\ last_failure_time' = cb_time']_vars

\* A trial call has closed a circuit that two failures had opened.
C23_Witness ==
    /\ call_result = "returned" /\ cb_pc = "idle"
    /\ entry_state = "OPEN" /\ invoked = 1
    /\ failure_threshold = 2
    /\ state = "CLOSED" /\ failure_count = 0
    /\ Elapsed > recovery_timeout

\* C24: a call that succeeds in CLOSED leaves failure_count as it is, so in
\* CLOSED failure_count is the number of failed calls since the last
\* HALF_OPEN-to-CLOSED reset or construction, and a CLOSED circuit opens
\* exactly on the failed call that brings that number to failure_threshold,
\* whatever successful calls lie between the failures.
C24_CumulativeFailuresOpen ==
    /\ [](state = "CLOSED" => failure_count = failed_calls)
    /\ [][/\ (FuncStep /\ state = "CLOSED" /\ func_outcome' = "returned") =>
                UNCHANGED <<state, failure_count>>
          /\ state = "CLOSED" =>
                (state' = "OPEN" <=>
                    (FuncStep /\ func_outcome' = "raised"
                        /\ failed_calls' >= failure_threshold))
          /\ (state = "CLOSED" /\ state' = "OPEN" /\ failure_threshold >= 1) =>
                failed_calls' = failure_threshold]_vars

\* The second failure has opened a circuit of threshold 2 after a success
\* between the two failures.
C24_Witness ==
    /\ call_result = "raised" /\ cb_pc = "idle"
    /\ entry_state = "CLOSED" /\ state = "OPEN"
    /\ failure_threshold = 2
    /\ failed_calls = 2 /\ failure_count = 2
    /\ success_between

(***************************************************************************)
(* retry: one call of a wrapped function (specification SpecRetry), with   *)
(* the default delay 1.0 and backoff 2.0.  An invocation of the function   *)
(* returns ("ok") or raises an exception of one of ExcTypes; the value a   *)
(* successful invocation returns is named by the number of the invocation. *)
(* The jitter changes only how long time.sleep sleeps.                     *)
(***************************************************************************)

\* The bound of the retry model: the max_attempts argument.
MaxAttempts == 4

ExcTypes == {"ConnectionError", "ValueError"}

FuncOutcomes == {"ok"} \cup ExcTypes

\* An except clause that catches every exception.
CaughtAny(exc, excs) == exc \in ExcTypes

\* except exceptions as e
Caught(exc, excs) == exc \in excs

\* retry(max_attempts, exceptions = ...)(func)
InitRetry ==
    /\ prices = <<>>
    /\ period = DefaultPeriod
    /\ CalcIdle
    /\ CatIdle
    /\ ScanIdle
    /\ LockIdle
    /\ PairIdle
    /\ BreakerIdle
    /\ max_attempts \in 0 .. MaxAttempts
    /\ exceptions \in SUBSET ExcTypes
    /\ attempt = 0
    /\ retry_delay = 1
    /\ retry_pc = "idle"
    /\ func_log = <<>>
    /\ sleeps = 0
    /\ retry_result = "none"
    /\ retry_value = 0

RetryFrame ==
    /\ UNCHANGED <<max_attempts, exceptions>>
    /\ UNCHANGED <<calcVars, catVars, scanVars, lockVars, pairVars, breakerVars>>

\* wrapper, up to the first invocation; with no attempt to make the loop
\* is skipped and the raise after it is reached.
CallWrapper ==
    /\ retry_pc = "idle"
    /\ retry_delay' = 1
    /\ attempt' = 0
    /\ IF max_attempts > 0
       THEN retry_pc' = "loop" /\ UNCHANGED retry_result
       ELSE retry_pc' = "done" /\ retry_result' = "RetryExhaustedError"
    /\ UNCHANGED <<func_log, sleeps, retry_value>>
    /\ RetryFrame

\* One pass of the loop, up to time.sleep: the function is invoked and does
\* what did names.
Invoke(did) ==
    /\ retry_pc = "loop"
    /\ func_log' = Append(func_log, did)
    /\ IF did = "ok"
       THEN /\ retry_pc' = "done"
            /\ retry_result' = "returned"
            /\ retry_value' = Len(func_log')
       ELSE IF Caught(did, exceptions)
       THEN IF attempt = max_attempts - 1
            THEN /\ retry_pc' = "done"
                 /\ retry_result' = "RetryExhaustedError"
                 /\ UNCHANGED retry_value
            ELSE /\ retry_pc' = "sleeping"
                 /\ UNCHANGED <<retry_result, retry_value>>
       ELSE /\ retry_pc' = "done"
            /\ retry_result' = did
            /\ UNCHANGED retry_value
    /\ UNCHANGED <<attempt, retry_delay, sleeps>>
    /\ RetryFrame

\* time.sleep returns, _delay *= backoff, and the loop goes on.
Sleep ==
    /\ retry_pc = "sleeping"
    /\ sleeps' = sleeps + 1
    /\ retry_delay' = retry_delay * 2
    /\ attempt' = attempt + 1
    /\ retry_pc' = "loop"
    /\ UNCHANGED <<func_log, retry_result, retry_value>>
    /\ RetryFrame

NextRetry == CallWrapper \/ (\E did \in FuncOutcomes : Invoke(did)) \/ Sleep

SpecRetry == InitRetry /\ [][NextRetry]_vars

(***************************************************************************)
(* Claims about retry (specification SpecRetry).                           *)
(***************************************************************************)

\* The invocations of the function in the call.
Invocations == Len(func_log)

\* The invocation raised an exception listed in exceptions.
RaisedListed(i) == func_log[i] \in exceptions

====
